---- MODULE Spec2Model ----
(***************************************************************************)
(* A model of the crop-field-health prototype:                             *)
(*   preprocessing/inspect.py  manifest loading, path resolution, image    *)
(*                             assembly, random samplers, entry point      *)
(*   prototype.py              FarmlandAnomalyModel: model selection,      *)
(*                             auxiliary objects, prediction               *)
(*                                                                         *)
(* Python values are modelled as follows.  A dict that keeps its insertion *)
(* order (a JSON object, an image mapping) is a sequence of <<key, value>> *)
(* pairs with pairwise different keys.  A str whose characters matter      *)
(* (model tokens, auxiliary shortcuts) is a sequence of one-character      *)
(* strings.  None is the record None; a global that may be None holds      *)
(* either None or List(s).  An exception is a record with a "type" field.  *)
(* Everything the code reads from outside the process (files on disk,      *)
(* directory listings, the random generator, the external framework) is an *)
(* input of the action that reads it.                                      *)
(***************************************************************************)
EXTENDS Integers, Sequences, FiniteSets, TLC

VARIABLES
  train_data_paths,   \* inspect.py global
  val_data_paths,     \* inspect.py global
  test_data_paths,    \* inspect.py global
  complete_paths,     \* inspect.py global
  self_model,         \* FarmlandAnomalyModel.model of the object under test
  ret                 \* the last call: its arguments, effects and outcome

vars == <<train_data_paths, val_data_paths, test_data_paths, complete_paths,
          self_model, ret>>

(***************************************************************************)
(* Python values                                                           *)
(***************************************************************************)
None == [py |-> "None"]

List(s) == [py |-> "list", items |-> s]

\* no FarmlandAnomalyModel object exists (none built yet, or __init__ raised)
Unbound == [py |-> "unbound"]

\* the keys of an ordered dict, in insertion order
Keys(d) == [i \in DOMAIN d |-> d[i][1]]

KeySet(d) == {d[i][1] : i \in DOMAIN d}

HasKey(d, k) == k \in KeySet(d)

\* d[k] for a key the dict holds
Get(d, k) == d[CHOOSE i \in DOMAIN d : d[i][1] = k][2]

Range(s) == {s[i] : i \in DOMAIN s}

\* all sequences over S of length at most n
SeqsUpTo(S, n) == UNION {[1..m -> S] : m \in 0..n}

(***************************************************************************)
(* Bounds and input universes of the manifest model                        *)
(***************************************************************************)
\* most records the three manifests hold together
MaxRecords == 2

Splits == <<"train", "val", "test">>

\* identifiers the manifests use; LookupIds adds one no manifest holds
ManifestIds == {1, 2}

LookupIds == ManifestIds \cup {3}

\* key orders of the JSON objects in the manifests
ShapeA == <<"id", "rgb", "label_x", "classes">>

ShapeB == <<"rgb", "id">>

ShapeC == <<"id", "classes", "label_x", "rgb", "nir">>

Dirs == {"d1", "d2"}

\* the PathRecord of image `id` with key order `shape`, its files under `dir`
PathRecord(id, shape, dir) ==
  [i \in DOMAIN shape |->
     <<shape[i],
       CASE shape[i] = "id" -> id
         [] shape[i] = "classes" -> <<>>
         [] OTHER -> <<dir, id, shape[i]>> >>]

Records == {PathRecord(id, sh, d) : id \in ManifestIds, sh \in {ShapeA, ShapeB}, d \in Dirs}

\* the file paths a table of records names
PathsOf(table) ==
  UNION {{table[n][i][2] : i \in {j \in DOMAIN table[n] :
                                     table[n][j][1] \notin {"id", "classes"}}}
         : n \in DOMAIN table}

\* the directory with the three manifest files: which exist, and what they hold
Disks ==
  {[present |-> p, train |-> SubSeq(s, 1, i), val |-> SubSeq(s, i + 1, j),
    test |-> SubSeq(s, j + 1, Len(s))] :
     <<s, i, j, p>> \in {q \in SeqsUpTo(Records, MaxRecords) \X (0..MaxRecords)
                               \X (0..MaxRecords) \X SUBSET Range(Splits) :
                           /\ q[2] <= q[3] /\ q[3] <= Len(q[1])
                           /\ Cardinality(q[4]) >= 2}}

(***************************************************************************)
(* inspect.py: load_json_files                                             *)
(***************************************************************************)
\* the loop of lines 63-69: append every item of train, then val, then test
AppendAll(acc, items) ==
  LET RECURSIVE Go(_, _)
      Go(a, n) == IF n > Len(items) THEN a ELSE Go(Append(a, items[n]), n + 1)
  IN Go(acc, 1)

ConcatManifests(tr, va, te) == AppendAll(AppendAll(AppendAll(<<>>, tr), va), te)

\* the state load_json_files leaves, and how it ends, on directory `disk`
load_json_files(disk, g) ==
  IF "train" \notin disk.present
  THEN [g EXCEPT !.error = [type |-> "AssertionError", file |-> "train.json"]]
  ELSE LET g1 == [g EXCEPT !.train = List(disk.train),
                           !.io = Append(@, <<"open", "train.json">>)] IN
  IF "val" \notin disk.present
  THEN [g1 EXCEPT !.error = [type |-> "AssertionError", file |-> "val.json"]]
  ELSE LET g2 == [g1 EXCEPT !.val = List(disk.val),
                            !.io = Append(@, <<"open", "val.json">>)] IN
  IF "test" \notin disk.present
  THEN [g2 EXCEPT !.error = [type |-> "AssertionError", file |-> "test.json"]]
  ELSE [g2 EXCEPT !.test = List(disk.test),
                  !.io = Append(@, <<"open", "test.json">>),
                  !.complete = List(ConcatManifests(disk.train, disk.val, disk.test))]

\* the module globals as a record, for the operators that update them
Globals ==
  [train |-> train_data_paths, val |-> val_data_paths, test |-> test_data_paths,
   complete |-> complete_paths, io |-> <<>>, error |-> None]

SetGlobals(g) ==
  /\ train_data_paths' = g.train
  /\ val_data_paths' = g.val
  /\ test_data_paths' = g.test
  /\ complete_paths' = g.complete

\* the manifests are read once, at startup (line 166)
LoadJsonFiles ==
  /\ train_data_paths = None
  /\ ret.op = "none"
  /\ \E disk \in Disks :
       LET g == load_json_files(disk, Globals) IN
         /\ SetGlobals(g)
         /\ ret' = [op |-> "load_json_files", io |-> g.io, error |-> g.error]
  /\ UNCHANGED self_model

(***************************************************************************)
(* inspect.py: get_processed_paths, single_image_info, all_image_info      *)
(***************************************************************************)
Ok(v) == [status |-> "ok", value |-> v]

Raise(e) == [status |-> "error", error |-> e]

NotFound(image_id) ==
  [type |-> "KeyError", item |-> image_id, msg |-> "was not found in the dataset"]

\* the for/else scan of lines 74-80
GetProcessedPathsFirst(image_id, paths_list) ==
  LET RECURSIVE Scan(_)
      Scan(indx) ==
        IF indx > Len(paths_list) THEN Raise(NotFound(image_id))
        ELSE IF Get(paths_list[indx], "id") = image_id THEN Ok(paths_list[indx])
        ELSE Scan(indx + 1)
  IN Scan(1)

\* a scan that keeps the last match instead of stopping at the first
GetProcessedPathsLast(image_id, paths_list) ==
  LET RECURSIVE Scan(_, _)
      Scan(indx, found) ==
        IF indx > Len(paths_list) THEN found
        ELSE IF Get(paths_list[indx], "id") = image_id
             THEN Scan(indx + 1, Ok(paths_list[indx]))
             ELSE Scan(indx + 1, found)
  IN Scan(1, Raise(NotFound(image_id)))

get_processed_paths(image_id, paths_list) == GetProcessedPathsFirst(image_id, paths_list)

\* np.array(Image.open(path)): the pixels of the file, when it decodes
Decode(path, readable) ==
  IF path \in readable THEN Ok([pixels_of |-> path])
  ELSE Raise([type |-> "FileNotFoundError", path |-> path])

single_image_info(image_id, category, paths_list, readable) ==
  LET file_paths == get_processed_paths(image_id, paths_list) IN
  IF file_paths.status = "error" THEN file_paths
  ELSE IF ~HasKey(file_paths.value, category)
       THEN Raise([type |-> "KeyError", key |-> category])
       ELSE Decode(Get(file_paths.value, category), readable)

\* a loop that forgets to skip 'classes'
SkippedKeysIdOnly == {"id"}

SkippedKeys == {"id", "classes"}

\* the loop of lines 91-94 over the items of the resolved record
AssembleItems(items, skipped, readable) ==
  LET RECURSIVE Go(_, _)
      Go(n, image_info) ==
        IF n > Len(items) THEN Ok(image_info)
        ELSE IF items[n][1] \in skipped THEN Go(n + 1, image_info)
        ELSE LET img == Decode(items[n][2], readable) IN
             IF img.status = "error" THEN img
             ELSE Go(n + 1, Append(image_info, <<items[n][1], img.value>>))
  IN Go(1, <<>>)

all_image_info(image_id, paths_list, readable) ==
  LET file_paths == get_processed_paths(image_id, paths_list) IN
  IF file_paths.status = "error" THEN file_paths
  ELSE AssembleItems(file_paths.value, SkippedKeys, readable)

\* The calls below leave the globals as they are, so a call made after another
\* call reaches no state that the same call made first does not reach: a
\* behaviour makes one call.
Fresh == ret.op \in {"none", "load_json_files"}

GetProcessedPaths ==
  /\ Fresh
  /\ complete_paths # None
  /\ \E image_id \in LookupIds :
       ret' = [op |-> "get_processed_paths", image_id |-> image_id,
               out |-> get_processed_paths(image_id, complete_paths.items)]
  /\ UNCHANGED <<train_data_paths, val_data_paths, test_data_paths, complete_paths,
                 self_model>>

\* the image files that decode at the time of a call: any part of the files named
\* (every file named, or all but one: the first file that fails ends the call)
ReadablesOf(table) == {PathsOf(table)} \cup {PathsOf(table) \ {p} : p \in PathsOf(table)}

AllImageInfo ==
  /\ Fresh
  /\ complete_paths # None
  /\ \E image_id \in LookupIds, readable \in ReadablesOf(complete_paths.items) :
       ret' = [op |-> "all_image_info", image_id |-> image_id, readable |-> readable,
               out |-> all_image_info(image_id, complete_paths.items, readable)]
  /\ UNCHANGED <<train_data_paths, val_data_paths, test_data_paths, complete_paths,
                 self_model>>

(***************************************************************************)
(* The manifest store and the resolver                                     *)
(***************************************************************************)

Init ==
  /\ train_data_paths = None
  /\ val_data_paths = None
  /\ test_data_paths = None
  /\ complete_paths = None
  /\ self_model = Unbound
  /\ ret = [op |-> "none"]

Next ==
  \/ LoadJsonFiles
  \/ GetProcessedPaths
  \/ AllImageInfo

Spec == Init /\ [][Next]_vars

(***************************************************************************)
(* inspect.py: the samplers                                                *)
(***************************************************************************)
\* the bounds of the assertion of line 126
MinImgs == 4

MaxImgs == 10

\* the divisor of lines 143 and 145
GridDivisor == 10

\* np.random.choice(a, n, replace = False) draws n different positions of a,
\* in any order
DrawWithoutReplacement(len, n) ==
  LET RECURSIVE Go(_, _)
      Go(m, avail) ==
        IF m = 0 THEN {<<>>}
        ELSE UNION {{<<p>> \o r : r \in Go(m - 1, avail \ {p})} : p \in avail}
  IN Go(n, 1..len)

\* a draw that may take a position twice (replace = True)
DrawWithReplacement(len, n) == [1..n -> 1..len]

Draws(len, n) == DrawWithoutReplacement(len, n)

TooLarge == [type |-> "ValueError", msg |-> "Cannot take a larger sample than population"]

\* list(map(f, random_images)), given the outcome of f for each sampled id
\* in draw order: the first call that raises ends the map
MapImages(outcomes) ==
  LET RECURSIVE Go(_, _)
      Go(n, images) ==
        IF n > Len(outcomes) THEN Ok(images)
        ELSE IF outcomes[n].status = "error" THEN outcomes[n]
        ELSE Go(n + 1, Append(images, outcomes[n].value))
  IN Go(1, <<>>)

\* lines 118-121 and 150-153
SaveFigure(save, name) == IF save THEN <<<<"savefig", name>>>> ELSE <<>>

NotSampled == [drawn |-> None, random_images |-> None, images |-> None, grid |-> None,
               io |-> <<>>]

\* a count that adds the two sides
NumImagesSum(size) == size[1] + size[2]

\* line 103
NumImages(size) == size[1] * size[2]

\* lines 110-112: one axis per grid cell, row by row, showing images[indx]
SpecificGrid(size, images) ==
  [n \in 1..(size[1] * size[2]) |-> [ax |-> n - 1, shows |-> images[n]]]

show_random_specific_images(size, image_ids, image_types, paths_list, save, draw, readable) ==
  IF size.py \notin {"list", "tuple"}
  THEN NotSampled @@ [error |-> [type |-> "AssertionError", what |-> "type"]]
  ELSE IF Len(size.items) # 2
  THEN NotSampled @@ [error |-> [type |-> "AssertionError", what |-> "len"]]
  ELSE LET num_images == NumImages(size.items) IN
  IF num_images > Len(image_ids) THEN NotSampled @@ [error |-> TooLarge]
  ELSE LET random_images == [n \in 1..num_images |-> image_ids[draw[n]]]
           sampled == [NotSampled EXCEPT !.drawn = List(draw),
                                         !.random_images = List(random_images)]
           images == MapImages([n \in 1..num_images |->
                                  single_image_info(random_images[n], image_types,
                                                    paths_list, readable)])
       IN
  IF images.status = "error" THEN sampled @@ [error |-> images.error]
  ELSE LET gathered == [sampled EXCEPT !.images = List(images.value)] IN
  \* plt.subplots(1, 1) returns one Axes object, which has no attribute 'flat'
  IF num_images = 1
  THEN gathered @@ [error |-> [type |-> "AttributeError", attr |-> "flat"]]
  ELSE [gathered EXCEPT !.grid = List(SpecificGrid(size.items, images.value)),
                        !.io = <<<<"show">>>> \o SaveFigure(save, "inspected-specific.png")]
       @@ [error |-> None]

\* lines 139-142: a category that holds 'label' loses its first six characters
TitleOf(image_type) ==
  CASE image_type = "label_x" -> "x"
    [] OTHER -> image_type

\* lines 137-145: the cells of axes.flat, until an index or a key is missing
GeneralGrid(num_imgs, images) ==
  LET order == Keys(images[1])
      k == Len(images[1])
      RECURSIVE Go(_, _)
      Go(indx, cells) ==
        IF indx >= num_imgs * k THEN Ok(cells)
        ELSE LET image_type == order[(indx % k) + 1]
                 row == indx \div GridDivisor
                 title == IF row = 0 THEN TitleOf(image_type) ELSE "" IN
             IF row >= Len(images) THEN Raise([type |-> "IndexError", index |-> row])
             ELSE IF ~HasKey(images[row + 1], image_type)
             THEN Raise([type |-> "KeyError", key |-> image_type])
             ELSE Go(indx + 1,
                     Append(cells, [ax |-> indx, titled |-> (row = 0), title |-> title,
                                    shows |-> Get(images[row + 1], image_type)]))
  IN Go(0, <<>>)

show_random_general_images(num_imgs, image_ids, paths_list, save, draw, readable) ==
  IF ~(MinImgs < num_imgs /\ num_imgs < MaxImgs)
  THEN NotSampled @@ [error |-> [type |-> "AssertionError", what |-> "range"]]
  ELSE IF num_imgs > Len(image_ids) THEN NotSampled @@ [error |-> TooLarge]
  ELSE LET random_images == [n \in 1..num_imgs |-> image_ids[draw[n]]]
           sampled == [NotSampled EXCEPT !.drawn = List(draw),
                                         !.random_images = List(random_images)]
           images == MapImages([n \in 1..num_imgs |->
                                  all_image_info(random_images[n], paths_list, readable)])
       IN
  IF images.status = "error" THEN sampled @@ [error |-> images.error]
  ELSE LET gathered == [sampled EXCEPT !.images = List(images.value)] IN
  \* plt.subplots(n, 0) raises
  IF Len(images.value[1]) = 0
  THEN gathered @@ [error |-> [type |-> "ValueError", msg |-> "Number of columns"]]
  ELSE LET grid == GeneralGrid(num_imgs, images.value) IN
  IF grid.status = "error" THEN gathered @@ [error |-> grid.error]
  ELSE [gathered EXCEPT !.grid = List(grid.value),
                        !.io = <<<<"show">>>> \o SaveFigure(save, "inspected-general.png")]
       @@ [error |-> None]

\* the draws the generator can make for a request of n out of len positions
\* (one dummy draw when the request is refused before the generator runs)
DrawsFor(len, n) == IF n >= 0 /\ n <= len THEN Draws(len, n) ELSE {<<>>}

SizeCount(size) ==
  IF size.py \in {"list", "tuple"} /\ Len(size.items) = 2
  THEN NumImages(size.items) ELSE -1

(***************************************************************************)
(* Input universes of the samplers                                         *)
(***************************************************************************)
\* longest identifier list handed to a sampler
MaxIds == 5

\* largest side of a grid shape
MaxDim == 2

Iota(n) == [i \in 1..n |-> i]

\* identifier lists: 1..n, and 1..n with its last entry repeating the first
IdLists ==
  {Iota(n) : n \in 0..MaxIds} \cup {[Iota(n) EXCEPT ![n] = 1] : n \in 2..MaxIds}

\* a manifest table with one record per identifier 1..Len(shapes), the record
\* of identifier n of shape shapes[n]
Catalog(shapes) == [n \in DOMAIN shapes |-> PathRecord(n, shapes[n], "d1")]

\* n records of one shape
Uniform(n, shape) == [i \in 1..n |-> shape]

\* n records, the first of one shape, the others of another
FirstDiffers(n, first, others) == [i \in 1..n |-> IF i = 1 THEN first ELSE others]

SampleTables ==
  { Catalog(Uniform(MaxIds, ShapeA)),
    Catalog(Uniform(MaxIds, ShapeC)),
    Catalog(FirstDiffers(MaxIds, ShapeC, ShapeA)),
    Catalog(FirstDiffers(MaxIds, ShapeA, ShapeB)),
    Catalog(Uniform(MaxIds - 1, ShapeB)) }

SampleReadables(table) == {PathsOf(table), PathsOf(table) \ {<<"d1", 2, "rgb">>}}

PyInt(n) == [py |-> "int", val |-> n]

Tuple(s) == [py |-> "tuple", items |-> s]

Sizes ==
  {Tuple(<<r, c>>) : r \in 1..MaxDim, c \in 1..MaxDim}
    \cup {List(<<1, 2>>), Tuple(<<2>>), Tuple(<<1, 2, 1>>), PyInt(4)}

Counts == 3..MaxImgs

ShowRandomSpecificImages ==
  /\ Fresh
  /\ \E size \in Sizes, image_ids \in IdLists, image_types \in {"rgb", "label_x"},
        paths_list \in SampleTables, save \in BOOLEAN :
       \E readable \in SampleReadables(paths_list),
          draw \in DrawsFor(Len(image_ids), SizeCount(size)) :
         ret' = [op |-> "show_random_specific_images", size |-> size,
                 image_ids |-> image_ids, image_types |-> image_types,
                 paths_list |-> paths_list, save |-> save, readable |-> readable]
                @@ show_random_specific_images(size, image_ids, image_types, paths_list,
                                               save, draw, readable)
  /\ UNCHANGED <<train_data_paths, val_data_paths, test_data_paths, complete_paths,
                 self_model>>

ShowRandomGeneralImages ==
  /\ Fresh
  /\ \E num_imgs \in Counts, image_ids \in IdLists, paths_list \in SampleTables,
        save \in BOOLEAN :
       \E readable \in SampleReadables(paths_list),
          draw \in DrawsFor(Len(image_ids),
                            IF MinImgs < num_imgs /\ num_imgs < MaxImgs
                            THEN num_imgs ELSE -1) :
         ret' = [op |-> "show_random_general_images", num_imgs |-> num_imgs,
                 image_ids |-> image_ids, paths_list |-> paths_list, save |-> save,
                 readable |-> readable]
                @@ show_random_general_images(num_imgs, image_ids, paths_list, save, draw,
                                              readable)
  /\ UNCHANGED <<train_data_paths, val_data_paths, test_data_paths, complete_paths,
                 self_model>>

NextSample ==
  \/ ShowRandomSpecificImages
  \/ ShowRandomGeneralImages

SpecSample == Init /\ [][NextSample]_vars

(***************************************************************************)
(* inspect.py: get_classes_dict, get_image_names and the entry point       *)
(***************************************************************************)
\* A dataset directory: for each split the listing of <split>/images/rgb (or
\* its absence), the listing of train/labels (or its absence), and
\* sys.platform.  A file name is [stem, ext] with a four-character ext.
Dir(names) == [exists |-> TRUE, names |-> names]

NoDir == [exists |-> FALSE, names |-> <<>>]

\* name[:-4]
StripExt(name) == name.stem

\* lines 19-26: index 0 is 'background', then the listing in listing order
get_classes_dict(dataset) ==
  IF ~dataset.labels.exists
  THEN Raise([type |-> "FileNotFoundError", path |-> "train/labels"])
  ELSE LET items == dataset.labels.names
           RECURSIVE Go(_, _)
           Go(n, class_dict) ==
             IF n > Len(items) THEN class_dict
             ELSE IF items[n] = ".DS_Store" /\ dataset.platform = "darwin"
                  THEN Go(n + 1, class_dict)
                  ELSE Go(n + 1, Append(class_dict, items[n]))
       IN Ok(Go(1, <<"background">>))

\* lines 30-47
get_image_names(mode, dataset) ==
  IF mode \notin {"train", "val", "test", "full"}
  THEN Raise([type |-> "ValueError", msg |-> "Invalid mode for file and path acquisition"])
  ELSE LET modes == IF mode = "full" THEN <<"train", "val", "test">> ELSE <<mode>>
           RECURSIVE Go(_, _)
           Go(n, image_ids) ==
             IF n > Len(modes) THEN Ok(image_ids)
             ELSE IF ~dataset[modes[n]].exists
                  THEN Raise([type |-> "AssertionError", what |-> "rgb"])
                  ELSE Go(n + 1,
                          image_ids \o [i \in DOMAIN dataset[modes[n]].names |->
                                          StripExt(dataset[modes[n]].names[i])])
       IN Go(1, <<>>)

InvalidMode == [type |-> "ValueError", msg |-> "You have provided an invalid mode"]

\* what the entry point has done when it stops: the globals, the I/O it
\* performed, the sampler's record, and the error that ended it (None if none)
MainState(g, io, sampler, error) ==
  [globals |-> g, io |-> io, error |-> error, drawn |-> sampler.drawn,
   random_images |-> sampler.random_images, images |-> sampler.images,
   grid |-> sampler.grid]

\* lines 166-176, for the draw and the readable files the run meets
MainDispatchLast(mode, disk, dataset, draw, readable) ==
  LET g == load_json_files(disk, Globals) IN
  IF g.error # None THEN MainState(g, g.io, NotSampled, g.error)
  ELSE LET image_files == get_image_names("train", dataset) IN
  IF image_files.status = "error"
  THEN MainState(g, g.io, NotSampled, image_files.error)
  ELSE LET io1 == Append(g.io, <<"listdir", "train/images/rgb">>)
           label_dict == get_classes_dict(dataset) IN
  IF label_dict.status = "error" THEN MainState(g, io1, NotSampled, label_dict.error)
  ELSE LET io2 == Append(io1, <<"listdir", "train/labels">>) IN
  IF mode = "specific"
  THEN LET r == show_random_specific_images(Tuple(<<16, 10>>), image_files.value,
                                            "boundary", g.complete.items, TRUE, draw,
                                            readable)
       IN MainState(g, io2 \o r.io, r, r.error)
  ELSE IF mode = "general"
  THEN LET r == show_random_general_images(6, image_files.value, g.complete.items, TRUE,
                                           draw, readable)
       IN MainState(g, io2 \o r.io, r, r.error)
  ELSE MainState(g, io2, NotSampled, InvalidMode)

\* an entry point that checks --mode before it does anything else
MainValidateFirst(mode, disk, dataset, draw, readable) ==
  IF mode \notin {"specific", "general"}
  THEN MainState(Globals, <<>>, NotSampled, InvalidMode)
  ELSE MainDispatchLast(mode, disk, dataset, draw, readable)

main(mode, disk, dataset, draw, readable) ==
  MainDispatchLast(mode, disk, dataset, draw, readable)

\* most files in the dataset's train/images/rgb directory
MaxFiles == 6

Modes == {"general", "specific", "random", ""}

MainTables ==
  { Catalog(Uniform(MaxFiles, ShapeA)),
    Catalog(Uniform(MaxFiles - 1, ShapeB)) }

AllSplits == Range(Splits)

MainDisks ==
  {[present |-> p, train |-> SubSeq(t, 1, 2), val |-> SubSeq(t, 3, 3),
    test |-> SubSeq(t, 4, Len(t))] :
     <<t, p>> \in (MainTables \X {AllSplits})
                    \cup ({Catalog(Uniform(MaxFiles, ShapeA))}
                            \X {AllSplits \ {x} : x \in AllSplits})}

Jpgs(n) == [i \in 1..n |-> [stem |-> i, ext |-> ".jpg"]]

\* listings of 0, MaxFiles - 1 and MaxFiles files, one of them with two files
\* of the same stem, and the missing directory
RgbListings ==
  {Dir(Jpgs(n)) : n \in {0, MaxFiles - 1, MaxFiles}}
    \cup {Dir([Jpgs(MaxFiles - 1) EXCEPT ![MaxFiles - 1] = [stem |-> 1, ext |-> ".png"]]),
          NoDir}

Datasets ==
  {[train |-> rgb, val |-> Dir(<<>>), test |-> Dir(<<>>), labels |-> lp[1],
    platform |-> lp[2]] :
     rgb \in RgbListings,
     lp \in {<<Dir(<<"cloud_shadow", ".DS_Store", "weed_cluster">>), "darwin">>,
             <<Dir(<<"cloud_shadow", ".DS_Store", "weed_cluster">>), "linux">>,
             <<NoDir, "linux">>}}

\* the number of identifiers the entry point asks the generator for
MainCount(mode) == IF mode = "general" THEN 6 ELSE IF mode = "specific" THEN 160 ELSE -1

Main ==
  /\ train_data_paths = None
  /\ ret.op = "none"
  /\ \E mode \in Modes, disk \in MainDisks, dataset \in Datasets :
       \E draw \in DrawsFor(Len(dataset.train.names), MainCount(mode)),
          readable \in {PathsOf(disk.train \o disk.val \o disk.test)} :
         LET m == main(mode, disk, dataset, draw, readable) IN
           /\ SetGlobals(m.globals)
           /\ ret' = [op |-> "main", mode |-> mode, directory |-> dataset, io |-> m.io,
                      error |-> m.error, drawn |-> m.drawn,
                      random_images |-> m.random_images, images |-> m.images,
                      grid |-> m.grid]
  /\ UNCHANGED self_model

NextMain == Main

SpecMain == Init /\ [][NextMain]_vars

(***************************************************************************)
(* prototype.py: strings                                                   *)
(***************************************************************************)
UpperChars ==
  <<"A", "B", "C", "D", "E", "F", "G", "H", "I", "J", "K", "L", "M",
    "N", "O", "P", "Q", "R", "S", "T", "U", "V", "W", "X", "Y", "Z">>

LowerChars ==
  <<"a", "b", "c", "d", "e", "f", "g", "h", "i", "j", "k", "l", "m",
    "n", "o", "p", "q", "r", "s", "t", "u", "v", "w", "x", "y", "z">>

LowerChar(c) ==
  IF \E i \in DOMAIN UpperChars : UpperChars[i] = c
  THEN LowerChars[CHOOSE i \in DOMAIN UpperChars : UpperChars[i] = c] ELSE c

UpperChar(c) ==
  IF \E i \in DOMAIN LowerChars : LowerChars[i] = c
  THEN UpperChars[CHOOSE i \in DOMAIN LowerChars : LowerChars[i] = c] ELSE c

\* str.lower()
Lower(str) == [i \in DOMAIN str |-> LowerChar(str[i])]

\* a comparison that forgets .lower()
LowerForgotten(str) == str

Upper(str) == [i \in DOMAIN str |-> UpperChar(str[i])]

Capitalize(str) == [i \in DOMAIN str |-> IF i = 1 THEN UpperChar(str[i]) ELSE str[i]]

\* str.endswith(suffix)
EndsWith(str, suffix) ==
  /\ Len(str) >= Len(suffix)
  /\ SubSeq(str, Len(str) - Len(suffix) + 1, Len(str)) = suffix

Str(chars) == [py |-> "str", chars |-> chars]

Dict(items) == [py |-> "dict", items |-> items]

(***************************************************************************)
(* prototype.py: FarmlandAnomalyModel                                      *)
(***************************************************************************)
\* the shortcut lists of lines 74, 77 and 80
Stage1Names ==
  { <<"d", "i", "c", "e", "2", "0">>,
    <<"2", "0">>,
    <<"f", "i", "r", "s", "t">>,
    <<"s", "t", "a", "g", "e", "1">> }

Stage2Names ==
  { <<"s", "c", "l", "4", "0">>,
    <<"4", "0">>,
    <<"m", "i", "d", "d", "l", "e">>,
    <<"s", "t", "a", "g", "e", "2">>,
    <<"i", "n", "t", "e", "r", "m", "e", "d", "i", "a", "t", "e">> }

Stage3Names ==
  { <<"d", "i", "c", "e", "6", "0">>,
    <<"6", "0">>,
    <<"l", "a", "s", "t">>,
    <<"f", "i", "n", "a", "l">>,
    <<"s", "t", "a", "g", "e", "3">> }

Stage1Weights == "logs/save/Model-Dice2D-20.hdf5"

Stage2Weights == "logs/save/Model-Dice-SCL-40.hdf5"

Stage3Weights == "logs/save/Model-Dice-SCL-Dice-60.hdf5"

DiceShortcut == <<"d", "i", "c", "e">>

SclShortcut == <<"s", "c", "l">>

SurfaceShortcut == <<"s", "u", "r", "f", "a", "c", "e">>

DiceObjects == Dict(<< <<"dice_loss_2d", "model.loss.dice_loss_2d">> >>)

SurfaceObjects == Dict(<< <<"surface_loss_2d", "model.loss.surface_channel_loss_2d">> >>)

\* lines 87-99
ValidateCustomObjectsLower(custom_objects) ==
  IF custom_objects.py = "dict" THEN Ok(custom_objects)
  ELSE IF Lower(custom_objects.chars) = DiceShortcut THEN Ok(DiceObjects)
  ELSE IF Lower(custom_objects.chars) = SclShortcut
          \/ Lower(custom_objects.chars) = SurfaceShortcut
       THEN Ok(SurfaceObjects)
  ELSE Raise([type |-> "ValueError", msg |-> "invalid custom object shortcut keyword",
              keyword |-> custom_objects.chars])

\* a validation that knows 'scl' but not 'surface'
ValidateCustomObjectsNoSurface(custom_objects) ==
  IF custom_objects.py = "dict" THEN Ok(custom_objects)
  ELSE IF Lower(custom_objects.chars) = DiceShortcut THEN Ok(DiceObjects)
  ELSE IF Lower(custom_objects.chars) = SclShortcut THEN Ok(SurfaceObjects)
  ELSE Raise([type |-> "ValueError", msg |-> "invalid custom object shortcut keyword",
              keyword |-> custom_objects.chars])

_validate_custom_objects(custom_objects) == ValidateCustomObjectsLower(custom_objects)

\* load_model(weights, custom_objects = ...) of the external framework: the
\* model it deserializes, or its error
LoadModel(call, load_ok) ==
  IF load_ok THEN [error |-> None, model |-> [py |-> "Model", loaded |-> call], load_model |-> call]
  ELSE [error |-> [type |-> "OSError", msg |-> "load_model"], model |-> None,
        load_model |-> call]

NoLoad(error) == [error |-> error, model |-> None, load_model |-> None]

\* lines 74-82: the shortcut branch; no branch for an unknown name
LoadShortcut(name, load_ok) ==
  IF name \in Stage1Names
  THEN LoadModel([weights |-> Stage1Weights,
                  custom_objects |-> _validate_custom_objects(Str(DiceShortcut)).value],
                 load_ok)
  ELSE IF name \in Stage2Names
  THEN LoadModel([weights |-> Stage2Weights,
                  custom_objects |-> _validate_custom_objects(Str(SclShortcut)).value],
                 load_ok)
  ELSE IF name \in Stage3Names
  THEN LoadModel([weights |-> Stage3Weights,
                  custom_objects |-> _validate_custom_objects(Str(DiceShortcut)).value],
                 load_ok)
  ELSE NoLoad(None)

\* a shortcut branch that ends with `else: raise`
LoadShortcutStrict(name, load_ok) ==
  IF name \in Stage1Names \cup Stage2Names \cup Stage3Names
  THEN LoadShortcut(name, load_ok)
  ELSE NoLoad([type |-> "ValueError", msg |-> "unknown model shortcut"])

LoadShortcutModel(name, load_ok) == LoadShortcut(name, load_ok)

\* the lowering of line 74, 77 and 80
ShortcutName(model) == Lower(model)

\* lines 58-82: what _initialize_model assigns to self.model, the load_model
\* call it makes, and the error it raises
_initialize_model(model, kwargs, exists, load_ok) ==
  IF EndsWith(model, <<".", "h", "d", "f", "5">>) \/ EndsWith(model, <<".", "h", "5">>)
  THEN IF exists
       THEN IF HasKey(kwargs, "custom_objects")
            THEN LET custom_objects ==
                       _validate_custom_objects(Get(kwargs, "custom_objects")) IN
                 IF custom_objects.status = "error" THEN NoLoad(custom_objects.error)
                 ELSE LoadModel([path |-> model, custom_objects |-> custom_objects.value],
                                load_ok)
            ELSE LoadModel([path |-> model], load_ok)
       ELSE NoLoad([type |-> "FileNotFoundError", path |-> model])
  ELSE LoadShortcutModel(ShortcutName(model), load_ok)

\* model tokens: every shortcut as written, in upper case and capitalized,
\* names no list holds, and paths with and without a model-file extension
UnknownNames ==
  { <<"s", "t", "a", "g", "e", "4">>,
    <<>>,
    <<"d", "i", "c", "e">>,
    <<"b", "e", "s", "t">>,
    <<"f", "i", "n", "a", "l", ".", "H", "5">>,
    <<" ", "f", "i", "n", "a", "l">>,
    <<"h", "5">>,
    <<"s", "t", "a", "g", "e", "1", ".", "h", "d", "f">> }

PathTokens ==
  { <<"m", ".", "h", "5">>,
    <<"m", ".", "h", "d", "f", "5">>,
    <<"s", "t", "a", "g", "e", "1", ".", "h", "d", "f", "5">>,
    <<".", "h", "5">>,
    <<"F", "I", "N", "A", "L", ".", "h", "5">> }

Tokens ==
  UNION {{t, Upper(t), Capitalize(t)} : t \in Stage1Names \cup Stage2Names \cup Stage3Names}
    \cup UnknownNames \cup PathTokens

CustomObjects ==
  {Str(t) : t \in UNION {{c, Upper(c), Capitalize(c)} :
                           c \in {DiceShortcut, SclShortcut, SurfaceShortcut}}}
    \cup {Str(<<"u", "n", "k", "n", "o", "w", "n">>), Str(<<>>), Dict(<<>>), Dict(<< <<"my_loss", "my_module.my_loss">> >>)}

Kwargs ==
  {<<>>} \cup {<< <<"custom_objects", c>> >> :
                 c \in {Str(DiceShortcut), Str(Upper(SurfaceShortcut)), Str(<<"u", "n", "k", "n", "o", "w", "n">>),
                        Dict(<< <<"my_loss", "my_module.my_loss">> >>)}}

\* lines 20-23: the object exists only if _initialize_model returns
Construct ==
  /\ ret.op = "none"
  /\ \E model \in Tokens, kwargs \in Kwargs, exists \in BOOLEAN, load_ok \in BOOLEAN :
       LET r == _initialize_model(model, kwargs, exists, load_ok) IN
         /\ self_model' = IF r.error = None THEN r.model ELSE Unbound
         /\ ret' = [op |-> "__init__", model |-> model, kwargs |-> kwargs,
                    exists |-> exists, load_ok |-> load_ok, error |-> r.error,
                    load_model |-> r.load_model]
  /\ UNCHANGED <<train_data_paths, val_data_paths, test_data_paths, complete_paths>>

ValidateCustomObjects ==
  /\ ret.op = "none"
  /\ \E custom_objects \in CustomObjects :
       ret' = [op |-> "_validate_custom_objects", custom_objects |-> custom_objects,
               out |-> _validate_custom_objects(custom_objects)]
  /\ UNCHANGED <<train_data_paths, val_data_paths, test_data_paths, complete_paths,
                 self_model>>

(***************************************************************************)
(* prototype.py: predict and show_segmented_predictions                    *)
(***************************************************************************)
\* The functions of testing.image, testing.process and testing.segment and
\* the framework's Model.predict are external to these files: each returns a
\* value that records what it was applied to, or raises if it is the one
\* function that `fails` names.
External(name, args, fails) ==
  IF fails = name THEN Raise([type |-> "ExternalError", raised_by |-> name])
  ELSE Ok([py |-> name, of |-> args])

Externals ==
  {"get_testing_image", "preprocess_image", "predict", "postprocess_output",
   "create_displayable_test_output", "draw_segmentation_map", "display_segmented_diagram"}

\* isinstance(test_image, (list, tuple, set))
IsDatasetItem(test_image) == test_image.py \in {"list", "tuple", "set"}

\* test_image[0], test_image[1]: a set cannot be indexed
Subscript(test_image) ==
  IF test_image.py = "set"
  THEN Raise([type |-> "TypeError", msg |-> "'set' object is not subscriptable"])
  ELSE Ok(test_image.items)

\* self.model.predict(x): None has no attribute 'predict'
ModelPredict(model, x, fails) ==
  IF model = None
  THEN Raise([type |-> "AttributeError", msg |-> "'NoneType' object has no attribute 'predict'"])
  ELSE External("predict", <<model, x>>, fails)

\* lines 117-126
predict(model, test_image, fails) ==
  LET testing_image ==
        IF IsDatasetItem(test_image)
        THEN LET item == Subscript(test_image) IN
             IF item.status = "error" THEN item
             ELSE External("get_testing_image",
                           [mode |-> item.value[1], value |-> item.value[2],
                            with_truth |-> FALSE], fails)
        ELSE External("preprocess_image", test_image, fails)
  IN
  IF testing_image.status = "error" THEN testing_image
  ELSE LET predicted == ModelPredict(model, testing_image.value, fails) IN
  IF predicted.status = "error" THEN predicted
  ELSE External("postprocess_output", predicted.value, fails)

Unassigned == [py |-> "unassigned"]

\* lines 130-142: testing_image and, on one path only, testing_truth
ResolveTestImage(test_image, with_truth, fails) ==
  IF IsDatasetItem(test_image)
  THEN LET item == Subscript(test_image) IN
       IF item.status = "error" THEN item
       ELSE LET got == External("get_testing_image",
                                [mode |-> item.value[1], value |-> item.value[2],
                                 with_truth |-> with_truth], fails) IN
            IF got.status = "error" THEN got
            ELSE IF with_truth
                 THEN Ok([testing_image |-> [py |-> "image", of |-> got.value],
                          testing_truth |-> [py |-> "truth", of |-> got.value]])
                 ELSE Ok([testing_image |-> got.value, testing_truth |-> Unassigned])
  ELSE Ok([testing_image |-> test_image, testing_truth |-> Unassigned])

\* lines 144-162: the diagram handed to display_segmented_diagram, or the error
show_segmented_predictions(model, test_image, with_truth, fails) ==
  LET locals == ResolveTestImage(test_image, with_truth, fails) IN
  IF locals.status = "error" THEN locals
  ELSE LET raw == ModelPredict(model, locals.value.testing_image, fails) IN
  IF raw.status = "error" THEN raw
  ELSE LET predicted == External("postprocess_output", raw.value, fails) IN
  IF predicted.status = "error" THEN predicted
  ELSE LET displayable_test_image ==
             External("create_displayable_test_output", test_image, fails) IN
  IF displayable_test_image.status = "error" THEN displayable_test_image
  ELSE IF with_truth /\ locals.value.testing_truth = Unassigned
  THEN Raise([type |-> "UnboundLocalError", name |-> "testing_truth"])
  ELSE LET testing_truth ==
             IF with_truth
             THEN External("postprocess_output", locals.value.testing_truth, fails)
             ELSE Ok(Unassigned)
           annotated_test_prediction ==
             External("draw_segmentation_map",
                      <<displayable_test_image.value, predicted.value>>, fails) IN
  IF annotated_test_prediction.status = "error" THEN annotated_test_prediction
  ELSE LET diagram ==
             IF with_truth
             THEN [base |-> displayable_test_image.value,
                   prediction |-> annotated_test_prediction.value,
                   truth |-> External("draw_segmentation_map",
                                      <<displayable_test_image.value, testing_truth.value>>,
                                      fails).value]
             ELSE [base |-> displayable_test_image.value,
                   prediction |-> annotated_test_prediction.value] IN
  IF fails = "display_segmented_diagram"
  THEN Raise([type |-> "ExternalError", raised_by |-> fails])
  ELSE Ok(diagram)

\* inputs: an image array, an image path, and dataset items as tuple, list, set
TestImages ==
  { [py |-> "ndarray", of |-> "field.png"],
    [py |-> "tuple", items |-> <<"val", 1>>],
    [py |-> "tuple", items |-> <<"train", 2>>],
    [py |-> "list", items |-> <<"test", 1>>],
    [py |-> "set", items |-> <<"val", 1>>] }

Predict ==
  /\ ret.op = "__init__"
  /\ self_model # Unbound
  /\ \E test_image \in TestImages, fails \in Externals \cup {"none"} :
       ret' = [op |-> "predict", test_image |-> test_image, fails |-> fails,
               out |-> predict(self_model, test_image, fails)]
  /\ UNCHANGED <<train_data_paths, val_data_paths, test_data_paths, complete_paths,
                 self_model>>

ShowSegmentedPredictions ==
  /\ ret.op = "__init__"
  /\ self_model # Unbound
  /\ \E test_image \in TestImages, with_truth \in BOOLEAN,
        fails \in Externals \cup {"none"} :
       ret' = [op |-> "show_segmented_predictions", test_image |-> test_image,
               with_truth |-> with_truth, fails |-> fails,
               out |-> show_segmented_predictions(self_model, test_image, with_truth,
                                                  fails)]
  /\ UNCHANGED <<train_data_paths, val_data_paths, test_data_paths, complete_paths,
                 self_model>>

NextModel ==
  \/ Construct
  \/ ValidateCustomObjects
  \/ Predict
  \/ ShowSegmentedPredictions

SpecModel == Init /\ [][NextModel]_vars

(***************************************************************************)
(* Claims about the manifest store, the resolver and the assembler         *)
(***************************************************************************)
\* the merged table as the claim describes it: train, then val, then test
MergedTable == train_data_paths.items \o val_data_paths.items \o test_data_paths.items

Matches(table, image_id) == {n \in DOMAIN table : Get(table[n], "id") = image_id}

FirstMatch(table, image_id) ==
  table[CHOOSE n \in Matches(table, image_id) :
          \A m \in Matches(table, image_id) : n <= m]

\* C1: after load_json_files succeeds, get_processed_paths(image_id,
\* complete_paths) returns the earliest record with that id in
\* train-then-val-then-test order, and raises the not-found KeyError naming
\* the identifier exactly when no record of the merged table has the id.
C1_ResolveFirstMatch ==
  ret.op = "get_processed_paths" =>
    IF Matches(MergedTable, ret.image_id) = {}
    THEN ret.out.status = "error" /\ ret.out.error = NotFound(ret.image_id)
    ELSE ret.out.status = "ok" /\ ret.out.value = FirstMatch(MergedTable, ret.image_id)

\* C1 witness: a lookup of an id that train and val both hold, with different records
C1_Witness ==
  /\ ret.op = "get_processed_paths"
  /\ ret.out.status = "ok"
  /\ \E t \in DOMAIN train_data_paths.items, v \in DOMAIN val_data_paths.items :
       /\ Get(train_data_paths.items[t], "id") = ret.image_id
       /\ Get(val_data_paths.items[v], "id") = ret.image_id
       /\ train_data_paths.items[t] # val_data_paths.items[v]

\* C2: for a record all_image_info resolves, the keys of the returned mapping
\* are exactly the record's keys without 'id' and 'classes', each holding the
\* decoded file the record names for it; if a file of one of those keys does
\* not decode, the call fails and returns no mapping.
C2_AssembleAllKeys ==
  (ret.op = "all_image_info" /\ Matches(MergedTable, ret.image_id) # {}) =>
    LET rec == FirstMatch(MergedTable, ret.image_id)
        cats == KeySet(rec) \ {"id", "classes"}
    IN IF \A k \in cats : Get(rec, k) \in ret.readable
       THEN /\ ret.out.status = "ok"
            /\ KeySet(ret.out.value) = cats
            /\ Len(ret.out.value) = Cardinality(cats)
            /\ \A k \in cats : Get(ret.out.value, k) = [pixels_of |-> Get(rec, k)]
       ELSE /\ ret.out.status = "error"
            /\ ret.out.error.type = "FileNotFoundError"
            /\ "value" \notin DOMAIN ret.out

\* C2 witness: a record with 'id', 'classes' and two categories assembled into two images
C2_Witness ==
  /\ ret.op = "all_image_info"
  /\ ret.out.status = "ok"
  /\ "classes" \in KeySet(FirstMatch(MergedTable, ret.image_id))
  /\ KeySet(ret.out.value) = {"rgb", "label_x"}

(***************************************************************************)
(* Claims about the samplers                                               *)
(***************************************************************************)
Injective(f) == \A a, b \in DOMAIN f : f[a] = f[b] => a = b

\* the sampler drew n entries of image_ids at pairwise different positions
DrewPositions(n) ==
  /\ ret.drawn # None /\ ret.random_images # None
  /\ Len(ret.drawn.items) = n
  /\ Len(ret.random_images.items) = n
  /\ Injective(ret.drawn.items)
  /\ \A m \in 1..n : /\ ret.drawn.items[m] \in DOMAIN ret.image_ids
                     /\ ret.random_images.items[m] = ret.image_ids[ret.drawn.items[m]]

\* given the outcome of the assembly of every drawn id: the sampler holds the
\* assembled values in draw order, or failed because one assembly failed
AssembledEach(outcomes) ==
  IF \A m \in DOMAIN outcomes : outcomes[m].status = "ok"
  THEN /\ ret.images # None
       /\ ret.images.items = [m \in DOMAIN outcomes |-> outcomes[m].value]
  ELSE ret.images = None /\ ret.error # None

NothingSampled ==
  ret.drawn = None /\ ret.random_images = None /\ ret.images = None /\ ret.grid = None

\* C3 (as amended): show_random_general_images fails for every count <= 4 and
\* every count >= 10 before any identifier is sampled or any image assembled;
\* for 4 < count < 10 and count <= |identifiers| it samples exactly count
\* entries at pairwise different positions of the identifier list (pairwise
\* different identifiers when the list repeats none), and assembles one
\* multi-category image set per sampled identifier.
C3_GeneralSampling ==
  ret.op = "show_random_general_images" =>
    /\ (ret.num_imgs <= 4 \/ ret.num_imgs >= 10) =>
         ret.error.type = "AssertionError" /\ NothingSampled
    /\ (4 < ret.num_imgs /\ ret.num_imgs < 10 /\ ret.num_imgs <= Len(ret.image_ids)) =>
         /\ DrewPositions(ret.num_imgs)
         /\ Injective(ret.image_ids) => Injective(ret.random_images.items)
         /\ AssembledEach([m \in 1..ret.num_imgs |->
                             all_image_info(ret.random_images.items[m], ret.paths_list,
                                            ret.readable)])

\* C3 witness: five different identifiers sampled out of order and assembled
C3_Witness ==
  /\ ret.op = "show_random_general_images"
  /\ ret.num_imgs = 5
  /\ ret.images # None
  /\ Len(ret.images.items) = 5
  /\ Injective(ret.random_images.items)
  /\ ret.random_images.items # ret.image_ids

\* C3 as stated: the count sampled identifiers are pairwise distinct.
C3_Original ==
  (/\ ret.op = "show_random_general_images"
   /\ 4 < ret.num_imgs /\ ret.num_imgs < 10 /\ ret.num_imgs <= Len(ret.image_ids)) =>
    /\ ret.random_images # None
    /\ Len(ret.random_images.items) = ret.num_imgs
    /\ Injective(ret.random_images.items)
    /\ Range(ret.random_images.items) \subseteq Range(ret.image_ids)

IsGridShape(size) == size.py \in {"list", "tuple"} /\ Len(size.items) = 2

\* C4 (as amended): for every 2-element grid shape (r, c) of positive integers
\* with r*c <= |identifiers|, show_random_specific_images draws exactly r*c
\* entries at pairwise different positions of the identifier list (pairwise
\* different identifiers when the list repeats none) and assembles exactly one
\* image of the fixed category per drawn identifier in draw order; when
\* r*c > |identifiers| the call fails; a size that is not a 2-element list or
\* tuple is rejected before any sampling.
C4_SpecificSampling ==
  ret.op = "show_random_specific_images" =>
    IF ~IsGridShape(ret.size)
    THEN ret.error.type = "AssertionError" /\ NothingSampled
    ELSE LET n == ret.size.items[1] * ret.size.items[2] IN
         IF n > Len(ret.image_ids)
         THEN ret.error = TooLarge /\ NothingSampled
         ELSE /\ DrewPositions(n)
              /\ Injective(ret.image_ids) => Injective(ret.random_images.items)
              /\ AssembledEach([m \in 1..n |->
                                  single_image_info(ret.random_images.items[m],
                                                    ret.image_types, ret.paths_list,
                                                    ret.readable)])

\* C4 witness: a 2 x 2 grid drawn out of order from five different identifiers and shown
C4_Witness ==
  /\ ret.op = "show_random_specific_images"
  /\ ret.size = Tuple(<<2, 2>>)
  /\ Len(ret.image_ids) = 5
  /\ ret.grid # None
  /\ Injective(ret.random_images.items)
  /\ ret.drawn.items[1] > ret.drawn.items[2]

\* C4 as stated: the r*c drawn identifiers are pairwise distinct.
C4_Original ==
  (/\ ret.op = "show_random_specific_images"
   /\ IsGridShape(ret.size)
   /\ ret.size.items[1] * ret.size.items[2] <= Len(ret.image_ids)) =>
    /\ ret.random_images # None
    /\ Len(ret.random_images.items) = ret.size.items[1] * ret.size.items[2]
    /\ Injective(ret.random_images.items)
    /\ Range(ret.random_images.items) \subseteq Range(ret.image_ids)

\* C10 as stated: when show_random_general_images lays out its grid, the cell
\* at row i, column j shows category order[j] of the i-th sampled identifier,
\* order being the first sampled identifier's category order, and a column
\* title is set on exactly the k cells of row 0.
C10_GridLayout ==
  (ret.op = "show_random_general_images" /\ ret.grid # None) =>
    LET imgs == ret.images.items
        k == Len(imgs[1])
        order == Keys(imgs[1])
    IN /\ Len(ret.grid.items) = ret.num_imgs * k
       /\ \A i \in 0..(ret.num_imgs - 1), j \in 0..(k - 1) :
            LET cell == ret.grid.items[i * k + j + 1] IN
              /\ HasKey(imgs[i + 1], order[j + 1])
              /\ cell.shows = Get(imgs[i + 1], order[j + 1])
              /\ cell.titled <=> (i = 0)

(***************************************************************************)
(* Claims about the entry point                                            *)
(***************************************************************************)
ValidModes == {"general", "specific"}

NoManifestState ==
  /\ train_data_paths = None /\ val_data_paths = None
  /\ test_data_paths = None /\ complete_paths = None

\* C7 as stated: a --mode other than 'general' or 'specific' aborts with the
\* invalid-mode error before any manifest file is read, any dataset directory
\* is listed or any process-wide manifest state is populated.
C7_Original ==
  (ret.op = "main" /\ ret.mode \notin ValidModes) =>
    /\ ret.error # None
    /\ ret.error = InvalidMode => (ret.io = <<>> /\ NoManifestState)

\* C7 (as amended): a --mode other than 'general' or 'specific' aborts with an
\* error before any identifier is sampled and any image is assembled or
\* shown; the invalid-mode error itself is raised only after the three
\* manifest files were read, the process-wide manifest state was populated
\* and the dataset's rgb and label directories were listed (a manifest or
\* directory that is missing ends the run earlier, with its own error).
C7_InvalidModeAfterLoading ==
  (ret.op = "main" /\ ret.mode \notin ValidModes) =>
    /\ ret.error # None
    /\ NothingSampled
    /\ <<"show">> \notin Range(ret.io)
    /\ IF ret.error = InvalidMode
       THEN /\ ret.io = << <<"open", "train.json">>, <<"open", "val.json">>,
                           <<"open", "test.json">>, <<"listdir", "train/images/rgb">>,
                           <<"listdir", "train/labels">> >>
            /\ train_data_paths # None /\ val_data_paths # None /\ test_data_paths # None
            /\ complete_paths = List(MergedTable)
       ELSE ret.error.type \in {"AssertionError", "FileNotFoundError"}

\* C7 witness: an invalid mode rejected after a non-empty manifest table was loaded
C7_Witness ==
  /\ ret.op = "main"
  /\ ret.mode = "random"
  /\ ret.error = InvalidMode
  /\ complete_paths # None
  /\ Len(complete_paths.items) > 0

(***************************************************************************)
(* Claims about FarmlandAnomalyModel                                       *)
(***************************************************************************)
IsPathToken(model) == EndsWith(model, <<".", "h", "d", "f", "5">>) \/ EndsWith(model, <<".", "h", "5">>)

LowerCased(model, names) == \E n \in names : Lower(model) = n

StageSelection(weights, shortcut) ==
  [weights |-> weights,
   custom_objects |-> IF shortcut = "dice" THEN DiceObjects ELSE SurfaceObjects]

\* C5: for a token that is no path, _initialize_model selects the artifact and
\* the auxiliary shortcut by the token's group, whatever the token's case:
\* {dice20, 20, first, stage1} -> stage-1 weights with 'dice';
\* {scl40, 40, middle, stage2, intermediate} -> stage-2 weights with 'scl';
\* {dice60, 60, last, final, stage3} -> stage-3 weights with 'dice'; so two
\* tokens of one group select the same artifact and auxiliary set, and the
\* three groups are pairwise disjoint.
C5_ShortcutGroups ==
  /\ Stage1Names \cap Stage2Names = {}
  /\ Stage1Names \cap Stage3Names = {}
  /\ Stage2Names \cap Stage3Names = {}
  /\ (ret.op = "__init__" /\ ~IsPathToken(ret.model)) =>
       /\ LowerCased(ret.model, Stage1Names) =>
            ret.load_model = StageSelection("logs/save/Model-Dice2D-20.hdf5", "dice")
       /\ LowerCased(ret.model, Stage2Names) =>
            ret.load_model = StageSelection("logs/save/Model-Dice-SCL-40.hdf5", "scl")
       /\ LowerCased(ret.model, Stage3Names) =>
            ret.load_model = StageSelection("logs/save/Model-Dice-SCL-Dice-60.hdf5", "dice")

\* C5 witness: 'STAGE2' selects what 'scl40' selects
C5_Witness ==
  /\ ret.op = "__init__"
  /\ ret.model = <<"S", "T", "A", "G", "E", "2">>
  /\ ret.error = None
  /\ self_model # None
  /\ ret.load_model = StageSelection("logs/save/Model-Dice-SCL-40.hdf5", "scl")

\* C6: _validate_custom_objects returns a supplied mapping unchanged; for a
\* string it returns the dice-loss set for 'dice', one and the same
\* surface-channel-loss set for 'scl' and for 'surface', whatever the case,
\* and raises the invalid-shortcut ValueError for every other string.
C6_ValidateCustomObjects ==
  ret.op = "_validate_custom_objects" =>
    IF ret.custom_objects.py = "dict"
    THEN ret.out.status = "ok" /\ ret.out.value = ret.custom_objects
    ELSE IF Lower(ret.custom_objects.chars) = <<"d", "i", "c", "e">>
    THEN ret.out.status = "ok" /\ ret.out.value = DiceObjects
    ELSE IF Lower(ret.custom_objects.chars) \in {<<"s", "c", "l">>,
                                                 <<"s", "u", "r", "f", "a", "c", "e">>}
    THEN ret.out.status = "ok" /\ ret.out.value = SurfaceObjects
    ELSE /\ ret.out.status = "error"
         /\ ret.out.error.type = "ValueError"
         /\ ret.out.error.keyword = ret.custom_objects.chars

\* C6 witness: 'SURFACE' resolved to the surface-channel-loss set
C6_Witness ==
  /\ ret.op = "_validate_custom_objects"
  /\ ret.custom_objects = Str(<<"S", "U", "R", "F", "A", "C", "E">>)
  /\ ret.out.status = "ok"
  /\ ret.out.value = SurfaceObjects

\* C8: constructing FarmlandAnomalyModel with a token that neither ends in a
\* model-file extension nor belongs, in any case, to a shortcut group
\* completes without raising and leaves the model None, and predict and
\* show_segmented_predictions on an object whose model is None fail; a token
\* that ends in a model-file extension and names no existing file raises
\* FileNotFoundError, and no object with an unset model results.
C8_UnknownTokenLeavesModelUnset ==
  /\ ret.op = "__init__" =>
       /\ (/\ ~IsPathToken(ret.model)
           /\ ~LowerCased(ret.model, Stage1Names \cup Stage2Names \cup Stage3Names)) =>
            ret.error = None /\ self_model = None /\ ret.load_model = None
       /\ (IsPathToken(ret.model) /\ ~ret.exists) =>
            ret.error.type = "FileNotFoundError" /\ self_model = Unbound
       /\ self_model = None =>
            /\ ~IsPathToken(ret.model)
            /\ ~LowerCased(ret.model, Stage1Names \cup Stage2Names \cup Stage3Names)
  /\ (ret.op \in {"predict", "show_segmented_predictions"} /\ self_model = None) =>
       ret.out.status = "error"

\* C8 witness: predict on an object whose construction left the model None fails at
\* self.model.predict
C8_Witness ==
  /\ ret.op = "predict"
  /\ self_model = None
  /\ ret.fails = "none"
  /\ ret.out.status = "error"
  /\ ret.out.error.type = "AttributeError"

\* C9 as stated: for a raw image and for a (split, identifier) pair, and for
\* either value of with_truth, show_segmented_predictions on a loaded model
\* reaches the display step when no external function fails; the diagram
\* holds the ground-truth overlay exactly when with_truth is true.
C9_ShowReachesDisplay ==
  (/\ ret.op = "show_segmented_predictions"
   /\ self_model # None
   /\ ret.fails = "none"
   /\ ret.test_image.py \in {"ndarray", "tuple", "list"}) =>
    /\ ret.out.status = "ok"
    /\ ("truth" \in DOMAIN ret.out.value) <=> ret.with_truth

====
